---- MODULE Spec2Model ----
(***************************************************************************)
(* Model of the stream proxy endpoint of src/src/main.rs: the resolved-URL *)
(* cache (resolved_url_cache), the per-key lock registry (resolve_locks),  *)
(* try_proxy_stream_with_fallback, resolve_rd_url and try_fetch_and_proxy, *)
(* run by concurrent inbound requests.                                     *)
(***************************************************************************)
EXTENDS Naturals, Integers, Sequences, FiniteSets, TLC

\* ------------------------------------------------------------------ bounds
NumReqs == 3            \* inbound requests of one run
NumKeys == 2            \* distinct content keys (remote_path values)
NumUrls == 2            \* distinct well-formed Location values
MaxDiscards == 1        \* entries the lock registry drops in one run

Reqs == 1..NumReqs
Keys == 1..NumKeys
Urls == 1..NumUrls

\* ------------------------------------------------------- program constants
TIMEOUT_DURATION == 300         \* seconds, relay timeout
CACHE_TTL == 3600               \* seconds, time_to_live of the URL cache
CLIENT_TIMEOUT == 30            \* seconds, reqwest::Client timeout

OK == 200
NOT_FOUND == 404
BAD_GATEWAY == 502
GATEWAY_TIMEOUT == 504

\* ------------------------------------------------------------------ values
None == 0
NotUrl == NumUrls + 1           \* a Location value that is not a URL
Opaque == NumUrls + 2           \* a Location value that to_str() rejects
Locations == Urls \cup {NotUrl}
Handles == 1..(NumKeys + MaxDiscards)   \* Arc<Mutex<()>> allocations

VARIABLES
    cache,          \* resolved_url_cache: key -> Location or None
    locks,          \* resolve_locks: key -> handle or None
    holder,         \* per handle: the request owning the MutexGuard, or None
    queue,          \* per handle: the requests blocked in lock().await, FIFO
    pc,             \* per request: where its handler is
    key,            \* per request: remote_path
    url,            \* per request: the URL of its latest fetch (cached_url /
                    \* new_url)
    lk,             \* per request: the handle in its local `lock`, or None
    status,         \* per request: outbound status once it has returned
    fetched,        \* per request: the fetches that have ended, each as
                    \* <<the lookup it came from, its result>>
    resolveCalls,   \* per request: resolve_rd_url calls it issued
    discards,       \* entries the lock registry has dropped so far
    overlap,        \* per key: two requests for it have been in progress
                    \* at the same time
    fresh,          \* per key: a resolution has succeeded, and since the
                    \* latest one the cache has not dropped the entry (TTL,
                    \* capacity) and no fetch of the cached URL returned 404
    now,            \* the clock of the URL cache, in seconds
    insertedAt,     \* per key: the time of the latest insert into the cache
    call,           \* the function under study and its input, as a
                    \* tuple; <<"none">> when requests are under study
    ret             \* what that function returned, as a tuple; <<>> before
                    \* it has returned

vars == <<cache, locks, holder, queue, pc, key, url, lk, status, fetched,
          resolveCalls, discards, overlap, fresh, now, insertedAt, call, ret>>

\* The state after main has built AppState, before any request.
InitState ==
    /\ cache = [k \in Keys |-> None]
    /\ locks = [k \in Keys |-> None]
    /\ holder = [h \in Handles |-> None]
    /\ queue = [h \in Handles |-> <<>>]
    /\ pc = [r \in Reqs |-> "idle"]
    /\ key = [r \in Reqs |-> None]
    /\ url = [r \in Reqs |-> None]
    /\ lk = [r \in Reqs |-> None]
    /\ status = [r \in Reqs |-> None]
    /\ fetched = [r \in Reqs |-> <<>>]
    /\ resolveCalls = [r \in Reqs |-> 0]
    /\ discards = 0
    /\ overlap = [k \in Keys |-> FALSE]
    /\ fresh = [k \in Keys |-> FALSE]
    /\ now = 0
    /\ insertedAt = [k \in Keys |-> 0]

Init ==
    /\ InitState
    /\ call = <<"none">>
    /\ ret = <<>>

\* ------------------------------------------------------------- StreamRelay
\* What the content host does with a GET: the answer it would give and the
\* time (seconds) after which it gives it.
Answers == {"success", "notfound", "error", "refused"}
Times == {1, 29, 30, 31, 299, 300, 301}

\* reqwest's send() under the client built in main: it ends when the host
\* answers or when the client's own timeout elapses, whichever is first.
SendEnd(t) == IF t < CLIENT_TIMEOUT THEN t ELSE CLIENT_TIMEOUT

\* What send() yields: the host's answer, or a transport error when the URL
\* cannot be requested or the client's timeout came first.
SendResult(u, answer, t) ==
    IF u = NotUrl THEN "refused"
    ELSE IF t < CLIENT_TIMEOUT THEN answer
    ELSE "refused"

\* try_fetch_and_proxy: the status its Result carries (OK for Ok(response)).
TryFetchAndProxy(u, answer, t) ==
    IF u # NotUrl /\ SendEnd(t) >= TIMEOUT_DURATION THEN GATEWAY_TIMEOUT
    ELSE IF SendResult(u, answer, t) = "refused" THEN BAD_GATEWAY
    ELSE IF SendResult(u, answer, t) = "notfound" THEN NOT_FOUND
    ELSE IF SendResult(u, answer, t) # "success" THEN BAD_GATEWAY
    ELSE OK

\* The results a fetch of u can have, over what the content host may do.
FetchResults(u) == {TryFetchAndProxy(u, a, t) : a \in Answers, t \in Times}

\* ---------------------------------------------------------------- Resolver
\* The response to the HEAD probe as the code sees it.
Transports == {"sent", "failed"}
ProbeStatuses == {"redirect", "other"}
LocationHeaders == {None, Opaque} \cup Locations

\* resolve_rd_url: the Option it returns (None for Option::None).
ResolveRdUrl(transport, probeStatus, location) ==
    IF transport = "failed" THEN None
    ELSE IF location = None \/ location = Opaque THEN None
    ELSE location

\* The results a probe can have, over what the upstream may do.
ResolveResults ==
    {ResolveRdUrl(tr, ps, loc) :
        tr \in Transports, ps \in ProbeStatuses, loc \in LocationHeaders}

\* ----------------------------------------------------------- lock registry
\* Arc::new(Mutex::new(())): an allocation not made before. The registry
\* makes one per missing entry, so the count of those made is known.
NewMutex == Cardinality({k \in Keys : locks[k] # None}) + discards + 1

\* resolve_locks.get_with(key, init): the entry's handle, created if absent.
GetWith(k) == IF locks[k] # None THEN locks[k] ELSE NewMutex

Without(q, r) == SelectSeq(q, LAMBDA x : x # r)

\* A mutex whose release wakes nobody: those waiting stay on the wait list.
DropLockNoHandoff(r) ==
    LET h == lk[r] IN
    IF h = None THEN UNCHANGED <<holder, queue>>
    ELSE IF holder[h] = r
    THEN /\ holder' = [holder EXCEPT ![h] = None]
         /\ UNCHANGED queue
    ELSE /\ queue' = [queue EXCEPT ![h] = Without(queue[h], r)]
         /\ UNCHANGED holder

\* The drop of r's MutexGuard, or of its pending lock() future: a held lock
\* passes to the first waiter; a waiter leaves the wait list.
DropLock(r) ==
    LET h == lk[r] IN
    IF h = None THEN UNCHANGED <<holder, queue>>
    ELSE IF holder[h] = r
    THEN IF queue[h] # <<>>
         THEN /\ holder' = [holder EXCEPT ![h] = Head(queue[h])]
              /\ queue' = [queue EXCEPT ![h] = Tail(queue[h])]
         ELSE /\ holder' = [holder EXCEPT ![h] = None]
              /\ UNCHANGED queue
    ELSE /\ queue' = [queue EXCEPT ![h] = Without(queue[h], r)]
         /\ UNCHANGED holder

\* A handler whose return leaves its guard behind.
ReturnKeepLock(r, code) ==
    /\ pc' = [pc EXCEPT ![r] = "done"]
    /\ status' = [status EXCEPT ![r] = code]
    /\ lk' = [lk EXCEPT ![r] = None]
    /\ UNCHANGED <<holder, queue>>

\* The handler returns `code`; its locals (`lock`, `_guard`) are dropped.
Return(r, code) ==
    /\ pc' = [pc EXCEPT ![r] = "done"]
    /\ status' = [status EXCEPT ![r] = code]
    /\ lk' = [lk EXCEPT ![r] = None]
    /\ DropLock(r)

\* A fetch by r of its url ended with `res`: the record of it.
NoteFetch(r, stage, res) ==
    /\ fetched' = [fetched EXCEPT ![r] = Append(@, <<stage, res>>)]
    /\ fresh' = IF res = NOT_FOUND /\ url[r] = cache[key[r]]
                THEN [fresh EXCEPT ![key[r]] = FALSE]
                ELSE fresh

\* A cache built without time_to_live.
GetForever(k) == cache[k]

\* resolved_url_cache.get(key): the entry, unless CACHE_TTL has passed since
\* its insert.
Get(k) ==
    IF cache[k] # None /\ now < insertedAt[k] + CACHE_TTL
    THEN cache[k]
    ELSE None

\* An invalidate that leaves the entry in place.
InvalidateKeeps(k) == cache' = cache

\* resolved_url_cache.invalidate(key)
Invalidate(k) == cache' = [cache EXCEPT ![k] = None]

\* ----------------------------------------------------------------- actions
\* Request q is between its arrival and its end, for key k.
InProgress(q, k) == key[q] = k /\ pc[q] \notin {"idle", "done", "cancelled"}

\* A handler that skips the first lookup.
StartNoLookup(r, k) ==
    /\ pc[r] = "idle"
    /\ \A q \in Reqs : q < r => pc[q] # "idle"
    /\ \A j \in Keys : j < k => \E q \in Reqs : key[q] = j
    /\ key' = [key EXCEPT ![r] = k]
    /\ pc' = [pc EXCEPT ![r] = "lock"]
    /\ overlap' = [overlap EXCEPT
                     ![k] = @ \/ \E q \in Reqs : InProgress(q, k)]
    /\ UNCHANGED <<cache, locks, holder, queue, url, lk, status, fetched,
                   resolveCalls, discards, fresh>>
    /\ UNCHANGED <<now, insertedAt, call, ret>>

\* A handler that asks the lock registry for the key's handle before the
\* first lookup.
StartGetWith(r, k) ==
    /\ pc[r] = "idle"
    /\ \A q \in Reqs : q < r => pc[q] # "idle"
    /\ \A j \in Keys : j < k => \E q \in Reqs : key[q] = j
    /\ key' = [key EXCEPT ![r] = k]
    /\ locks' = [locks EXCEPT ![k] = GetWith(k)]
    /\ IF Get(k) # None
       THEN /\ url' = [url EXCEPT ![r] = Get(k)]
            /\ pc' = [pc EXCEPT ![r] = "fetch_hit"]
       ELSE /\ pc' = [pc EXCEPT ![r] = "lock"]
            /\ UNCHANGED url
    /\ overlap' = [overlap EXCEPT
                     ![k] = @ \/ \E q \in Reqs : InProgress(q, k)]
    /\ UNCHANGED <<cache, holder, queue, lk, status, fetched,
                   resolveCalls, discards, fresh>>
    /\ UNCHANGED <<now, insertedAt, call, ret>>

\* try_proxy_stream_with_fallback is entered for key k: the first lookup.
\* Requests are numbered in the order they arrive, keys in the order they
\* are first asked for.
Start(r, k) ==
    /\ pc[r] = "idle"
    /\ \A q \in Reqs : q < r => pc[q] # "idle"
    /\ \A j \in Keys : j < k => \E q \in Reqs : key[q] = j
    /\ key' = [key EXCEPT ![r] = k]
    /\ IF Get(k) # None
       THEN /\ url' = [url EXCEPT ![r] = Get(k)]
            /\ pc' = [pc EXCEPT ![r] = "fetch_hit"]
       ELSE /\ pc' = [pc EXCEPT ![r] = "lock"]
            /\ UNCHANGED url
    /\ overlap' = [overlap EXCEPT
                     ![k] = @ \/ \E q \in Reqs : InProgress(q, k)]
    /\ UNCHANGED <<cache, locks, holder, queue, lk, status, fetched,
                   resolveCalls, discards, fresh>>
    /\ UNCHANGED <<now, insertedAt, call, ret>>

\* A handler that drops the cache entry on every failed fetch.
FetchHitReturnDrops(r, res) ==
    /\ pc[r] = "fetch_hit"
    /\ res \in FetchResults(url[r])
    /\ NoteFetch(r, "hit", res)
    /\ IF res = NOT_FOUND
       THEN /\ Invalidate(key[r])
            /\ pc' = [pc EXCEPT ![r] = "lock"]
            /\ UNCHANGED <<holder, queue, lk, status>>
       ELSE /\ Return(r, res)
            /\ IF res = OK THEN UNCHANGED cache ELSE Invalidate(key[r])
    /\ UNCHANGED <<locks, key, url, resolveCalls, discards, overlap>>
    /\ UNCHANGED <<now, insertedAt, call, ret>>

\* The fetch of the URL found by the first lookup ends.
FetchHitReturn(r, res) ==
    /\ pc[r] = "fetch_hit"
    /\ res \in FetchResults(url[r])
    /\ NoteFetch(r, "hit", res)
    /\ IF res = NOT_FOUND
       THEN /\ Invalidate(key[r])
            /\ pc' = [pc EXCEPT ![r] = "lock"]
            /\ UNCHANGED <<holder, queue, lk, status>>
       ELSE /\ Return(r, res)
            /\ UNCHANGED cache
    /\ UNCHANGED <<locks, key, url, resolveCalls, discards, overlap>>
    /\ UNCHANGED <<now, insertedAt, call, ret>>

\* resolve_locks.get_with(..) and the first poll of lock.lock().
AcquireLock(r) ==
    /\ pc[r] = "lock"
    /\ LET h == GetWith(key[r]) IN
       /\ locks' = [locks EXCEPT ![key[r]] = h]
       /\ lk' = [lk EXCEPT ![r] = h]
       /\ IF holder[h] = None
          THEN /\ holder' = [holder EXCEPT ![h] = r]
               /\ pc' = [pc EXCEPT ![r] = "recheck"]
               /\ UNCHANGED queue
          ELSE /\ queue' = [queue EXCEPT ![h] = Append(@, r)]
               /\ pc' = [pc EXCEPT ![r] = "wait"]
               /\ UNCHANGED holder
    /\ UNCHANGED <<cache, key, url, status, fetched, resolveCalls, discards,
                   fresh, overlap>>
    /\ UNCHANGED <<now, insertedAt, call, ret>>

\* lock.lock().await completes for a waiter that was handed the lock.
LockGranted(r) ==
    /\ pc[r] = "wait"
    /\ holder[lk[r]] = r
    /\ pc' = [pc EXCEPT ![r] = "recheck"]
    /\ UNCHANGED <<cache, locks, holder, queue, key, url, lk, status, fetched,
                   resolveCalls, discards, fresh, overlap>>
    /\ UNCHANGED <<now, insertedAt, call, ret>>

\* The second lookup, under the lock; on a miss resolve_rd_url sends its probe.
Recheck(r) ==
    /\ pc[r] = "recheck"
    /\ IF Get(key[r]) # None
       THEN /\ url' = [url EXCEPT ![r] = Get(key[r])]
            /\ pc' = [pc EXCEPT ![r] = "fetch_recheck"]
            /\ UNCHANGED resolveCalls
       ELSE /\ pc' = [pc EXCEPT ![r] = "resolve"]
            /\ resolveCalls' = [resolveCalls EXCEPT ![r] = @ + 1]
            /\ UNCHANGED url
    /\ UNCHANGED <<cache, locks, holder, queue, key, lk, status, fetched,
                   discards, fresh, overlap>>
    /\ UNCHANGED <<now, insertedAt, call, ret>>

\* The fetch of the URL found by the second lookup ends.
FetchRecheckReturn(r, res) ==
    /\ pc[r] = "fetch_recheck"
    /\ res \in FetchResults(url[r])
    /\ NoteFetch(r, "recheck", res)
    /\ IF res = NOT_FOUND
       THEN /\ Invalidate(key[r])
            /\ pc' = [pc EXCEPT ![r] = "resolve"]
            /\ resolveCalls' = [resolveCalls EXCEPT ![r] = @ + 1]
            /\ UNCHANGED <<holder, queue, lk, status>>
       ELSE /\ Return(r, res)
            /\ UNCHANGED <<cache, resolveCalls>>
    /\ UNCHANGED <<locks, key, url, discards, overlap>>
    /\ UNCHANGED <<now, insertedAt, call, ret>>

\* A resolve_rd_url that caches its failure.
ResolveReturnPoison(r, new_url) ==
    /\ pc[r] = "resolve"
    /\ new_url \in ResolveResults
    /\ IF new_url = None
       THEN /\ Return(r, BAD_GATEWAY)
            /\ cache' = [cache EXCEPT ![key[r]] = NotUrl]
            /\ UNCHANGED <<insertedAt, url, fresh>>
       ELSE /\ cache' = [cache EXCEPT ![key[r]] = new_url]
            /\ insertedAt' = [insertedAt EXCEPT ![key[r]] = now]
            /\ url' = [url EXCEPT ![r] = new_url]
            /\ pc' = [pc EXCEPT ![r] = "fetch_new"]
            /\ fresh' = [fresh EXCEPT ![key[r]] = TRUE]
            /\ UNCHANGED <<holder, queue, lk, status>>
    /\ UNCHANGED <<locks, key, fetched, resolveCalls, discards, overlap>>
    /\ UNCHANGED <<now, call, ret>>

\* resolve_rd_url's probe ends; a Location is cached and then fetched.
ResolveReturn(r, new_url) ==
    /\ pc[r] = "resolve"
    /\ new_url \in ResolveResults
    /\ IF new_url = None
       THEN /\ Return(r, BAD_GATEWAY)
            /\ UNCHANGED <<cache, insertedAt, url, fresh>>
       ELSE /\ cache' = [cache EXCEPT ![key[r]] = new_url]
            /\ insertedAt' = [insertedAt EXCEPT ![key[r]] = now]
            /\ url' = [url EXCEPT ![r] = new_url]
            /\ pc' = [pc EXCEPT ![r] = "fetch_new"]
            /\ fresh' = [fresh EXCEPT ![key[r]] = TRUE]
            /\ UNCHANGED <<holder, queue, lk, status>>
    /\ UNCHANGED <<locks, key, fetched, resolveCalls, discards, overlap>>
    /\ UNCHANGED <<now, call, ret>>

\* A handler that resolves again when the resolved URL returns 404.
FetchNewReturnRetry(r, res) ==
    /\ pc[r] = "fetch_new"
    /\ res \in FetchResults(url[r])
    /\ NoteFetch(r, "new", res)
    /\ IF res = NOT_FOUND /\ resolveCalls[r] < 2
       THEN /\ Invalidate(key[r])
            /\ pc' = [pc EXCEPT ![r] = "resolve"]
            /\ resolveCalls' = [resolveCalls EXCEPT ![r] = @ + 1]
            /\ UNCHANGED <<holder, queue, lk, status>>
       ELSE /\ Return(r, res)
            /\ UNCHANGED <<cache, resolveCalls>>
    /\ UNCHANGED <<locks, key, url, discards, overlap>>
    /\ UNCHANGED <<now, insertedAt, call, ret>>

\* The fetch of the freshly resolved URL ends; its result is the handler's.
FetchNewReturn(r, res) ==
    /\ pc[r] = "fetch_new"
    /\ res \in FetchResults(url[r])
    /\ NoteFetch(r, "new", res)
    /\ Return(r, res)
    /\ UNCHANGED <<cache, locks, key, url, resolveCalls, discards, overlap>>
    /\ UNCHANGED <<now, insertedAt, call, ret>>

\* The client disconnects: the handler's future is dropped where it waits.
Suspended == {"fetch_hit", "lock", "wait", "recheck", "fetch_recheck",
              "resolve", "fetch_new"}

Cancel(r) ==
    /\ pc[r] \in Suspended
    /\ pc' = [pc EXCEPT ![r] = "cancelled"]
    /\ lk' = [lk EXCEPT ![r] = None]
    /\ url' = [url EXCEPT ![r] = None]
    /\ fetched' = [fetched EXCEPT ![r] = <<>>]
    /\ resolveCalls' = [resolveCalls EXCEPT ![r] = 0]
    /\ DropLock(r)
    /\ UNCHANGED <<cache, locks, key, status, discards, fresh, overlap>>
    /\ UNCHANGED <<now, insertedAt, call, ret>>

\* The lock registry drops the entry of k (LOCK_CACHE_TTL after its
\* insertion, or max_capacity); handles already cloned stay alive.
LockDiscard(k) ==
    /\ locks[k] # None
    /\ discards < MaxDiscards
    /\ discards' = discards + 1
    /\ locks' = [locks EXCEPT ![k] = None]
    /\ UNCHANGED <<cache, holder, queue, pc, key, url, lk, status, fetched,
                   resolveCalls, fresh, overlap>>
    /\ UNCHANGED <<now, insertedAt, call, ret>>

\* The URL cache drops the entry of k (CACHE_TTL after its insertion, or
\* max_capacity).
CacheExpire(k) ==
    /\ cache[k] # None \/ fresh[k]
    /\ cache' = [cache EXCEPT ![k] = None]
    /\ fresh' = [fresh EXCEPT ![k] = FALSE]
    /\ UNCHANGED <<locks, holder, queue, pc, key, url, lk, status, fetched,
                   resolveCalls, discards, overlap>>
    /\ UNCHANGED <<now, insertedAt, call, ret>>

Results == {OK, NOT_FOUND, BAD_GATEWAY, GATEWAY_TIMEOUT}

Next ==
    \/ \E r \in Reqs, k \in Keys : Start(r, k)
    \/ \E r \in Reqs, res \in Results : FetchHitReturn(r, res)
    \/ \E r \in Reqs : AcquireLock(r)
    \/ \E r \in Reqs : LockGranted(r)
    \/ \E r \in Reqs : Recheck(r)
    \/ \E r \in Reqs, res \in Results : FetchRecheckReturn(r, res)
    \/ \E r \in Reqs, u \in Locations \cup {None} : ResolveReturn(r, u)
    \/ \E r \in Reqs, res \in Results : FetchNewReturn(r, res)
    \/ \E r \in Reqs : Cancel(r)
    \/ \E k \in Keys : LockDiscard(k)
    \/ \E k \in Keys : CacheExpire(k)

Spec == Init /\ [][Next]_vars

TypeOK ==
    /\ cache \in [Keys -> Locations \cup {None}]
    /\ locks \in [Keys -> Handles \cup {None}]
    /\ holder \in [Handles -> Reqs \cup {None}]
    /\ \A r \in Reqs : status[r] \in {None} \cup Results
    /\ \A r \in Reqs : resolveCalls[r] \in 0..2

\* ------------------------------------------------------------------ claims
ReqsOf(k) == {r \in Reqs : key[r] = k}
Resolving(k) == {r \in ReqsOf(k) : pc[r] = "resolve"}
Ended(r) == pc[r] \in {"done", "cancelled"}

\* C1: in every reachable state, under any interleaving of requests and
\* whatever entries the lock registry has dropped meanwhile, at most one
\* resolve_rd_url call is outstanding for each key.
C1_OneResolverCallPerKey ==
    \A k \in Keys : Cardinality(Resolving(k)) <= 1

\* The requests of a run all arrive before any of them has called the
\* Resolver, the cache keeps what it is given and no client disconnects.
StartHerd(r, k) ==
    /\ \A q \in Reqs : pc[q] \in {"idle", "lock", "wait", "recheck"}
    /\ Start(r, k)

NextHerd ==
    \/ \E r \in Reqs, k \in Keys : StartHerd(r, k)
    \/ \E r \in Reqs : AcquireLock(r)
    \/ \E r \in Reqs : LockGranted(r)
    \/ \E r \in Reqs : Recheck(r)
    \/ \E r \in Reqs, res \in Results : FetchRecheckReturn(r, res)
    \/ \E r \in Reqs, u \in Locations \cup {None} : ResolveReturn(r, u)
    \/ \E r \in Reqs, res \in Results : FetchNewReturn(r, res)
    \/ \E k \in Keys : LockDiscard(k)

SpecHerd == Init /\ [][NextHerd]_vars

\* C2: when two or more requests for one key all miss the cache before any
\* Resolver call, and each of them ends with success after a single
\* successful fetch, exactly one of them called the Resolver and all of
\* them fetched the same URL.
C2_SingleFlight ==
    \A k \in Keys :
        (/\ Cardinality(ReqsOf(k)) >= 2
         /\ \A r \in ReqsOf(k) :
               pc[r] = "done" /\ status[r] = OK /\ Len(fetched[r]) = 1)
        => /\ Cardinality({r \in ReqsOf(k) : resolveCalls[r] > 0}) = 1
           /\ \A p, q \in ReqsOf(k) : url[p] = url[q]

\* C3: a request that does its lookup under the lock while the URL of a
\* completed resolution is fresh (the cache has not dropped it by TTL or
\* capacity, and no fetch of the cached URL has returned 404) finds a URL
\* and goes on to fetch it without calling the Resolver; stated for the
\* runs in which the lock registry has dropped no entry.
C3_RecheckFindsFresh ==
    [][\A r \in Reqs :
          (/\ pc[r] = "recheck"
           /\ fresh[key[r]]
           /\ discards = 0
           /\ pc'[r] \notin {"recheck", "cancelled"})
          => pc'[r] = "fetch_recheck" /\ resolveCalls'[r] = 0]_vars

Fetching(r) == pc[r] \in {"fetch_hit", "fetch_recheck", "fetch_new"}
Last(q) == q[Len(q)]
Has(r, stage, res) ==
    \E i \in 1..Len(fetched[r]) : fetched[r][i] = <<stage, res>>
GoneOnCached(r) == Has(r, "hit", NOT_FOUND) \/ Has(r, "recheck", NOT_FOUND)

\* C4: a request issues at most two fetches, counting the one in flight.
C4_AtMostTwoFetches ==
    \A r \in Reqs :
        Len(fetched[r]) + (IF Fetching(r) THEN 1 ELSE 0) <= 2

\* C5 as stated: a request calls the Resolver at most once; once it has
\* returned, a 404 for a cached URL has led it to exactly one Resolver call;
\* and a 404 for the freshly resolved URL ends it.
C5_ExactlyOneResolve ==
    \A r \in Reqs :
        /\ resolveCalls[r] <= 1
        /\ pc[r] = "done" /\ GoneOnCached(r) => resolveCalls[r] = 1
        /\ Has(r, "new", NOT_FOUND) => pc[r] = "done"

\* C5 as amended: a request calls the Resolver at most once; once it has
\* returned, a 404 for a cached URL has led it to exactly one Resolver call,
\* or to none when its lookup under the lock found a URL whose fetch did not
\* return 404 and ended the request; a 404 for the URL found under the lock
\* always leads to the call; and a 404 for the freshly resolved URL ends the
\* request with that one call made.
C5_AtMostOneResolve ==
    \A r \in Reqs :
        /\ resolveCalls[r] <= 1
        /\ pc[r] = "done" /\ GoneOnCached(r) =>
              \/ resolveCalls[r] = 1
              \/ /\ resolveCalls[r] = 0
                 /\ Last(fetched[r])[1] = "recheck"
                 /\ Last(fetched[r])[2] # NOT_FOUND
                 /\ status[r] = Last(fetched[r])[2]
        /\ Has(r, "recheck", NOT_FOUND) => resolveCalls[r] = 1
        /\ Has(r, "new", NOT_FOUND) => pc[r] = "done" /\ resolveCalls[r] = 1

C5_Witness ==
    \E r \in Reqs :
        /\ pc[r] = "done"
        /\ fetched[r] = << <<"hit", NOT_FOUND>>, <<"new", NOT_FOUND>> >>
        /\ resolveCalls[r] = 1

\* C6: no request ends with 404; one whose fetch of the freshly resolved URL
\* returned 404 ends with 502.
C6_GoneNeverSurfaced ==
    \A r \in Reqs :
        /\ status[r] # NOT_FOUND
        /\ pc[r] = "done" /\ Has(r, "new", NOT_FOUND) => status[r] = BAD_GATEWAY

StaleHit == << <<"hit", NOT_FOUND>>, <<"new", OK>> >>
Owns(r) == \E h \in Handles : holder[h] = r
Waits(r) == \E h \in Handles : \E i \in 1..Len(queue[h]) : queue[h][i] = r
UnderLock == {"wait", "recheck", "fetch_recheck", "resolve", "fetch_new"}

\* C7: every step that issues a Resolver call for key K leaves the cache
\* without an entry for K; and a request that had K to itself, got 404 for
\* the URL its first lookup found and success for the URL the Resolver
\* returned, returns success after exactly one Resolver call, with the cache
\* mapping K to the new URL unless the cache dropped the entry (TTL,
\* capacity) while the new URL was being fetched.
C7_StaleHitRecovery ==
    [][\A r \in Reqs :
          /\ resolveCalls'[r] > resolveCalls[r] => cache'[key[r]] = None
          /\ (/\ pc[r] = "fetch_new"
              /\ pc'[r] = "done"
              /\ ~overlap[key[r]]
              /\ fetched'[r] = StaleHit)
             => /\ status'[r] = OK
                /\ resolveCalls'[r] = 1
                /\ fresh'[key[r]] => cache'[key[r]] = url'[r]]_vars

C7_Witness ==
    \E r \in Reqs :
        /\ pc[r] = "done"
        /\ ~overlap[key[r]]
        /\ fetched[r] = StaleHit
        /\ status[r] = OK
        /\ resolveCalls[r] = 1
        /\ cache[key[r]] = url[r]

\* C8: a request that arrives while the cache holds a URL for its key goes
\* on to fetch that URL, and when that fetch does not return 404 the request
\* returns the fetch's result (success when the content host serves the URL)
\* after that one fetch, having made no Resolver call.
C8_CacheHitShortCircuit ==
    [][\A r \in Reqs :
          /\ (pc[r] = "idle" /\ pc'[r] # "idle" /\ cache[key'[r]] # None)
             => /\ pc'[r] = "fetch_hit"
                /\ url'[r] = cache[key'[r]]
                /\ resolveCalls'[r] = 0
          /\ (pc[r] = "fetch_hit" /\ pc'[r] = "done")
             => /\ resolveCalls'[r] = 0
                /\ Len(fetched'[r]) = 1
                /\ fetched'[r][1][1] = "hit"
                /\ fetched'[r][1][2] # NOT_FOUND
                /\ status'[r] = fetched'[r][1][2]]_vars

C8_Witness ==
    \E q, r \in Reqs :
        /\ q < r
        /\ key[q] = key[r]
        /\ pc[q] = "done" /\ resolveCalls[q] = 1 /\ status[q] = OK
        /\ pc[r] = "done" /\ resolveCalls[r] = 0 /\ status[r] = OK
        /\ fetched[r] = << <<"hit", OK>> >>
        /\ url[r] = url[q]

\* C9: the steps of a request that finds its key in the cache and whose
\* fetch of the cached URL does not return 404 (the lookup, and the return)
\* leave the lock registry, every lock's owner and every lock's wait list
\* unchanged; and a request fetching the URL its first lookup found has no
\* handle, owns no lock and waits for none.
C9_NoLockOnHitPath ==
    [][\A r \in Reqs :
          /\ (\/ pc[r] = "idle" /\ pc'[r] = "fetch_hit"
              \/ pc[r] = "fetch_hit" /\ pc'[r] = "done")
             => /\ UNCHANGED <<locks, holder, queue>>
                /\ lk'[r] = None
          /\ pc'[r] = "fetch_hit"
             => /\ lk'[r] = None
                /\ \A h \in Handles :
                      /\ holder'[h] # r
                      /\ \A i \in 1..Len(queue'[h]) : queue'[h][i] # r]_vars

C9_Witness ==
    \E q, r \in Reqs :
        /\ q # r
        /\ key[q] = key[r]
        /\ pc[q] = "fetch_hit"
        /\ pc[r] = "done" /\ fetched[r] = << <<"hit", BAD_GATEWAY>> >>
        /\ locks[key[r]] # None

\* C10: a request that has returned or was cancelled has no handle, owns no
\* lock and is in no wait list; and a lock is owned only by a request that
\* is between its lock() call and its end, through the handle it holds.
C10_LockReleasedOnExit ==
    /\ \A r \in Reqs :
          Ended(r) => lk[r] = None /\ ~Owns(r) /\ ~Waits(r)
    /\ \A h \in Handles :
          holder[h] # None
             => pc[holder[h]] \in UnderLock /\ lk[holder[h]] = h

C10_Witness ==
    \E q, r \in Reqs :
        /\ key[q] = key[r]
        /\ pc[q] = "cancelled"
        /\ pc[r] = "done" /\ status[r] = BAD_GATEWAY /\ resolveCalls[r] = 1
        /\ locks[key[r]] # None
        /\ holder[locks[key[r]]] = None

\* C11: a request whose Resolver call fails returns 502 having issued no
\* fetch since the call; that step leaves the cache as it was and takes the
\* lock from the request, leaving it free or with the first waiter.
C11_FailureDoesNotPoison ==
    [][\A r \in Reqs :
          (pc[r] = "resolve" /\ pc'[r] = "done")
          => /\ status'[r] = BAD_GATEWAY
             /\ fetched'[r] = fetched[r]
             /\ cache' = cache
             /\ \A h \in Handles : holder'[h] # r
             /\ holder[lk[r]] = r
                => holder'[lk[r]] =
                      IF queue[lk[r]] = <<>> THEN None
                      ELSE Head(queue[lk[r]])]_vars

\* A request's Resolver call failed, and a later request for the same key
\* made its own call and succeeded.
C11_Witness ==
    \E q, r \in Reqs :
        /\ q < r
        /\ key[q] = key[r]
        /\ pc[q] = "done" /\ status[q] = BAD_GATEWAY
        /\ resolveCalls[q] = 1 /\ fetched[q] = <<>>
        /\ pc[r] = "done" /\ status[r] = OK
        /\ resolveCalls[r] = 1 /\ fetched[r] = << <<"new", OK>> >>
        /\ cache[key[r]] = url[r]

\* C12: when the fetch of a URL found in the cache (by the first lookup or
\* by the lookup under the lock) ends with a failure other than 404, that
\* step ends the request with the fetch's status, 502 or 504, leaves the
\* cache as it was and adds no Resolver call.
C12_FailureNotRetried ==
    [][\A r \in Reqs :
          (/\ pc[r] \in {"fetch_hit", "fetch_recheck"}
           /\ Len(fetched'[r]) = Len(fetched[r]) + 1
           /\ Last(fetched'[r])[2] \notin {OK, NOT_FOUND})
          => /\ pc'[r] = "done"
             /\ status'[r] = Last(fetched'[r])[2]
             /\ status'[r] \in {BAD_GATEWAY, GATEWAY_TIMEOUT}
             /\ cache' = cache
             /\ resolveCalls'[r] = resolveCalls[r]]_vars

C12_Witness ==
    \E r \in Reqs :
        /\ pc[r] = "done"
        /\ fetched[r] = << <<"hit", BAD_GATEWAY>> >>
        /\ status[r] = BAD_GATEWAY
        /\ resolveCalls[r] = 0
        /\ cache[key[r]] = url[r]

\* ------------------------------------------------- functions on one input
\* The rest of the state, left as it is by a step that changes only ret.
requestVars == <<locks, holder, queue, pc, key, url, lk, status, fetched,
                 resolveCalls, discards, overlap, fresh, now>>

\* try_fetch_and_proxy on one URL, one behaviour of the content host.
FetchCalls ==
    {<<"fetch", u, a, t>> : u \in Locations, a \in Answers, t \in Times}

RelayFetch ==
    /\ call[1] = "fetch"
    /\ ret = <<>>
    /\ ret' = <<TryFetchAndProxy(call[2], call[3], call[4])>>
    /\ UNCHANGED <<requestVars, cache, insertedAt, call>>

\* resolve_rd_url for one key, one response to its probe.
ResolveCalls ==
    {<<"resolve", k, tr, ps, loc>> :
        k \in Keys, tr \in Transports, ps \in ProbeStatuses,
        loc \in LocationHeaders}

ResolverProbe ==
    /\ call[1] = "resolve"
    /\ ret = <<>>
    /\ LET redirected_url == ResolveRdUrl(call[3], call[4], call[5]) IN
       /\ ret' = <<redirected_url>>
       /\ IF redirected_url = None
          THEN UNCHANGED <<cache, insertedAt>>
          ELSE /\ cache' = [cache EXCEPT ![call[2]] = redirected_url]
               /\ insertedAt' = [insertedAt EXCEPT ![call[2]] = now]
    /\ UNCHANGED <<requestVars, call>>

\* ------------------------------------------------------------ sanitize_path
\* A path is a sequence of characters: "x" is any ordinary character, "2",
\* "E" and "F" are ordinary characters that are also hexadecimal digits.
MaxPathLen == 6
BAD_REQUEST == 400

Chars == {"%", "2", "E", "F", ".", "/", "x"}
HexDigits == {"2", "E", "F"}
Paths == UNION {[1..n -> Chars] : n \in 0..MaxPathLen}

\* The byte an escape %ab stands for: %2E is ".", %2F is "/", %22 is an
\* ordinary character, and E. and F. bytes are not ASCII ("hi").
Byte(a, b) ==
    IF a = "2"
    THEN IF b = "E" THEN "." ELSE IF b = "F" THEN "/" ELSE "x"
    ELSE "hi"

\* urlencoding's decoding of the bytes of p from position i on: an escape
\* becomes its byte; a "%" that two hexadecimal digits do not follow stays
\* as it is, and decoding goes on with the character after it (after the
\* first digit, when only the second is missing).
RECURSIVE DecodeBinary(_, _)
DecodeBinary(p, i) ==
    IF i > Len(p) THEN <<>>
    ELSE IF p[i] # "%" THEN <<p[i]>> \o DecodeBinary(p, i + 1)
    ELSE IF i + 2 > Len(p) THEN SubSeq(p, i, Len(p))
    ELSE IF p[i + 1] \notin HexDigits THEN <<"%">> \o DecodeBinary(p, i + 1)
    ELSE IF p[i + 2] \notin HexDigits
         THEN <<"%", p[i + 1]>> \o DecodeBinary(p, i + 2)
    ELSE <<Byte(p[i + 1], p[i + 2])>> \o DecodeBinary(p, i + 3)

\* urlencoding::decode: the decoded bytes as a string, or <<"err">> when
\* they are not UTF-8. None of the bytes "hi" stands for continues a
\* multi-byte character, so one of them is enough to make the bytes invalid.
Decode(p) ==
    LET bytes == DecodeBinary(p, 1) IN
    IF \E i \in 1..Len(bytes) : bytes[i] = "hi"
    THEN <<"err">>
    ELSE <<"ok", bytes>>

\* str::contains for a pattern of two equal characters.
Contains(d, c) == \E i \in 1..(Len(d) - 1) : d[i] = c /\ d[i + 1] = c

\* A sanitize_path that looks for ".." and "//" in the path as received.
SanitizePathRaw(path) ==
    LET decoded == Decode(path) IN
    IF decoded[1] = "err" THEN <<"err", BAD_REQUEST>>
    ELSE IF Contains(path, ".") THEN <<"err", BAD_REQUEST>>
    ELSE IF Contains(path, "/") THEN <<"err", BAD_REQUEST>>
    ELSE <<"ok", path>>

\* sanitize_path: Ok(path) or Err(StatusCode::BAD_REQUEST).
SanitizePath(path) ==
    LET decoded == Decode(path) IN
    IF decoded[1] = "err" THEN <<"err", BAD_REQUEST>>
    ELSE IF Contains(decoded[2], ".") THEN <<"err", BAD_REQUEST>>
    ELSE IF Contains(decoded[2], "/") THEN <<"err", BAD_REQUEST>>
    ELSE <<"ok", path>>

\* ------------------------------------------------------------ proxy_handler
\* A header value is visible ASCII (to_str() gives its text) or holds other
\* bytes (to_str() fails); <<"absent">> is a request without the header.
MaxRangedPathLen == 2
NoHeader == <<"absent">>
HeaderValues == {<<"visible", "bytes=0-99">>, <<"visible", "bytes=100-">>,
                 <<"opaque", "bytes">>}
RangedPaths == UNION {[1..n -> Chars] : n \in 0..MaxRangedPathLen}

\* range_header of proxy_handler: <<>> for Option::None, <<text>> for Some.
RangeHeader(h) ==
    IF h = NoHeader THEN <<>>
    ELSE IF h[1] = "visible" THEN <<h[2]>>
    ELSE <<>>

\* The Range header of the request try_fetch_and_proxy builds.
ReqBuilderRange(range_header) ==
    IF range_header = <<>> THEN NoHeader
    ELSE <<"visible", range_header[1]>>

\* The three try_fetch_and_proxy calls of try_proxy_stream_with_fallback.
FetchSites == {"hit", "recheck", "new"}

ProxyCalls ==
    {<<"proxy", path, NoHeader>> : path \in Paths}
    \cup {<<"proxy", path, h>> : path \in RangedPaths, h \in HeaderValues}

\* proxy_handler on one inbound request: a rejected path ends it; an
\* accepted one enters try_proxy_stream_with_fallback as request 1, whose
\* fetches will carry the Range header recorded in ret.
ProxyHandler ==
    /\ call[1] = "proxy"
    /\ ret = <<>>
    /\ LET remote_path == SanitizePath(call[2])
           range_header == RangeHeader(call[3])
       IN IF remote_path[1] = "err"
          THEN /\ ret' = remote_path
               /\ UNCHANGED <<pc, key>>
          ELSE /\ ret' = <<"ok", remote_path[2],
                           [site \in FetchSites |->
                               ReqBuilderRange(range_header)]>>
               /\ pc' = [pc EXCEPT ![1] = "lock"]
               /\ key' = [key EXCEPT ![1] = 1]
    /\ UNCHANGED <<cache, locks, holder, queue, url, lk, status, fetched,
                   resolveCalls, discards, overlap, fresh, now, insertedAt,
                   call>>

\* ----------------------------------------------------------- the probe URL
\* A URL is a sequence of symbols: a delimiter, or a run of ordinary
\* characters such as a scheme, a host name or a port.
MaxProbePathLen == 2
ALLOWED_TORRENTIO_DOMAINS ==
    {"torrentio.strem.fun", "torrentio.strem.io", "torrentio-debrid.cloud"}
HostNames == ALLOWED_TORRENTIO_DOMAINS \cup {"evil.com"}
UserInfos == {"", "evil.com", "torrentio.strem.fun"}
Ports == {"", "8443"}
PathSymbols == {"x", "/", "@", ":", "?", "evil.com"}
ProbePaths == UNION {[1..n -> PathSymbols] : n \in 0..MaxProbePathLen}

\* TORRENTIO_URL as load_config has it before validation, written from its
\* parts ("" for a part that is left out).
ConfigUrl(userinfo, host, port) ==
    <<"https", "://">>
    \o (IF userinfo = "" THEN <<>> ELSE <<userinfo, "@">>)
    \o (IF host = "" THEN <<>> ELSE <<host>>)
    \o (IF port = "" THEN <<>> ELSE <<":", port>>)
    \o <<"/", "cfg">>

\* Url::parse and host_str: the authority runs from after "://" to the
\* first "/", "?" or "#"; the host follows the last "@" of the authority
\* and ends at ":".
AuthorityEnd(t) ==
    LET ends == {i \in 3..Len(t) : t[i] \in {"/", "?", "#"}} IN
    IF ends = {} THEN Len(t) + 1
    ELSE CHOOSE i \in ends : \A j \in ends : i <= j

Authority(t) == SubSeq(t, 3, AuthorityEnd(t) - 1)

HostPort(a) ==
    LET ats == {i \in 1..Len(a) : a[i] = "@"} IN
    IF ats = {} THEN a
    ELSE SubSeq(a, (CHOOSE i \in ats : \A j \in ats : j <= i) + 1, Len(a))

HostStr(t) ==
    LET hp == HostPort(Authority(t)) IN
    IF hp = <<>> \/ hp[1] = ":" THEN "" ELSE hp[1]

\* validate_torrentio_url: TRUE for Ok(()).
ValidateTorrentioUrl(t) ==
    /\ HostStr(t) # ""
    /\ HostStr(t) \in ALLOWED_TORRENTIO_DOMAINS

\* torrentio_base_url of load_config: scheme and host.
TorrentioBaseUrl(t) == <<t[1], "://", HostStr(t)>>

\* A probe URL that joins base and path with nothing between them.
TorrentioUrlJoined(base, remote_path) == base \o remote_path

\* torrentio_url of try_proxy_stream_with_fallback.
TorrentioUrl(base, remote_path) ==
    base \o <<"/", "resolve", "/", "realdebrid", "/">> \o remote_path

ProbeCalls ==
    {<<"probe", u, h, p, path>> :
        u \in UserInfos, h \in HostNames \cup {""}, p \in Ports,
        path \in ProbePaths}

\* The server is configured and one request comes in: load_config refuses
\* the configuration, or sanitize_path the path, or the probe URL is built.
ProbeUrl ==
    /\ call[1] = "probe"
    /\ ret = <<>>
    /\ LET torrentio_url == ConfigUrl(call[2], call[3], call[4])
           remote_path == SanitizePath(call[5])
       IN ret' = IF ~ValidateTorrentioUrl(torrentio_url)
                 THEN <<"refused">>
                 ELSE IF remote_path[1] = "err" THEN remote_path
                 ELSE <<"ok", TorrentioUrl(TorrentioBaseUrl(torrentio_url),
                                           remote_path[2])>>
    /\ UNCHANGED <<requestVars, cache, insertedAt, call>>

InitInputs ==
    /\ InitState
    /\ call \in FetchCalls \cup ResolveCalls \cup ProxyCalls \cup ProbeCalls
    /\ ret = <<>>

NextInputs ==
    \/ RelayFetch
    \/ ResolverProbe
    \/ ProxyHandler
    \/ ProbeUrl

SpecInputs == InitInputs /\ [][NextInputs]_vars

\* C13: a fetch of a URL that the content host has not answered when
\* TIMEOUT_DURATION has elapsed ends as 504, and one the content host
\* answers with success before TIMEOUT_DURATION ends as success, also when
\* the answer comes later than the client's own timeout.
C13_RelayTimeout ==
    (call[1] = "fetch" /\ ret # <<>> /\ call[2] \in Urls)
    => /\ call[4] > TIMEOUT_DURATION => ret[1] = GATEWAY_TIMEOUT
       /\ (call[3] = "success" /\ call[4] < TIMEOUT_DURATION) => ret[1] = OK

\* C14: resolve_rd_url returns a URL only when the probe was answered with
\* a redirect status and a Location that is a URL, and then the cache maps
\* the key to it; otherwise it returns None and the cache has no entry.
C14_ResolverSuccessOnlyOnRedirect ==
    (call[1] = "resolve" /\ ret # <<>>)
    => IF call[3] = "sent" /\ call[4] = "redirect" /\ call[5] \in Urls
       THEN ret[1] = call[5] /\ cache[call[2]] = call[5]
       ELSE ret[1] = None /\ cache[call[2]] = None

\* C16: every fetch of an accepted request carries the Range header of
\* the inbound request, and none when the inbound request has none.
C16_RangeForwarded ==
    (call[1] = "proxy" /\ ret # <<>> /\ ret[1] = "ok")
    => \A site \in FetchSites : ret[3][site] = call[3]

ProbePrefix == <<"/", "resolve", "/", "realdebrid", "/">>

\* C17: a configured URL is accepted exactly when the host it was written
\* with is a whitelisted domain; and the probe URL built for an accepted path
\* is "https://", that host, "/resolve/realdebrid/" and the path, so that its
\* host is that whitelisted domain whatever the path holds.
C17_ProbeHostWhitelisted ==
    (call[1] = "probe" /\ ret # <<>>)
    => /\ ret = <<"refused">> <=> call[3] \notin ALLOWED_TORRENTIO_DOMAINS
       /\ ret[1] = "ok"
          => /\ ret[2] = <<"https", "://", call[3]>> \o ProbePrefix \o call[5]
             /\ HostStr(ret[2]) = call[3]
             /\ HostStr(ret[2]) \in ALLOWED_TORRENTIO_DOMAINS

C17_Witness ==
    /\ call = <<"probe", "evil.com", "torrentio.strem.io", "8443",
                <<"@", "evil.com">> >>
    /\ ret # <<>>
    /\ ret[1] = "ok"
    /\ HostStr(ret[2]) = "torrentio.strem.io"

\* Position i of p starts an escape: "%" and two hexadecimal digits.
EscapeAt(p, i) ==
    /\ p[i] = "%"
    /\ i + 2 <= Len(p)
    /\ p[i + 1] \in HexDigits
    /\ p[i + 2] \in HexDigits

\* Position i of p holds character c, as itself or as the escape %2e.
ReadsAs(p, i, c, e) ==
    \/ p[i] = c
    \/ EscapeAt(p, i) /\ p[i + 1] = "2" /\ p[i + 2] = e

Width(p, i) == IF EscapeAt(p, i) THEN 3 ELSE 1

\* The percent-decoded form of p holds cc.
DecodedHolds(p, c, e) ==
    \E i \in 1..Len(p) :
        /\ ReadsAs(p, i, c, e)
        /\ i + Width(p, i) <= Len(p)
        /\ ReadsAs(p, i + Width(p, i), c, e)

\* p holds a "%" that starts no escape.
Malformed(p) == \E i \in 1..Len(p) : p[i] = "%" /\ ~EscapeAt(p, i)

\* p holds an escape of a byte that is not text.
NotText(p) == \E i \in 1..Len(p) : EscapeAt(p, i) /\ p[i + 1] # "2"

Traversal(p) == DecodedHolds(p, ".", "E") \/ DecodedHolds(p, "/", "F")

\* No request has entered try_proxy_stream_with_fallback.
Untouched ==
    /\ \A r \in Reqs : pc[r] = "idle" /\ key[r] = None
    /\ \A k \in Keys : cache[k] = None /\ locks[k] = None
    /\ \A r \in Reqs : resolveCalls[r] = 0 /\ fetched[r] = <<>>

\* C18 as stated: a path is rejected with 400, and nothing else happens, when
\* its decoded form holds ".." or "//" or its encoding is invalid (a "%"
\* that starts no escape, or an escape of a byte that is not text); every
\* other path is accepted as received.
C18_SanitizeRejectsInvalid ==
    (call[1] = "proxy" /\ ret # <<>>)
    => IF Traversal(call[2]) \/ NotText(call[2]) \/ Malformed(call[2])
       THEN ret = <<"err", BAD_REQUEST>> /\ Untouched
       ELSE ret[1] = "ok" /\ ret[2] = call[2]

\* C18 as amended: a path is rejected with 400, and nothing else happens,
\* when its decoded form holds ".." or "//" or it holds an escape of a byte
\* that is not text; every other path, also one with a "%" that starts no
\* escape, is accepted as received.
C18_SanitizeRejectsTraversal ==
    (call[1] = "proxy" /\ ret # <<>>)
    => IF Traversal(call[2]) \/ NotText(call[2])
       THEN ret = <<"err", BAD_REQUEST>> /\ Untouched
       ELSE ret[1] = "ok" /\ ret[2] = call[2]

C18_Witness ==
    /\ call[1] = "proxy"
    /\ call[2] = <<"%", "2", "E", "%", "2", "E">>
    /\ ret = <<"err", BAD_REQUEST>>
    /\ Untouched

\* ------------------------------------------------------- the cache's clock
\* Time passes in steps of TickLen seconds, up to MaxTicks of them.
TickLen == 2400
MaxTicks == 2

Tick ==
    /\ now < MaxTicks * TickLen
    /\ now' = now + TickLen
    /\ UNCHANGED <<cache, locks, holder, queue, pc, key, url, lk, status,
                   fetched, resolveCalls, discards, overlap, fresh,
                   insertedAt, call, ret>>

\* Requests against a cache whose clock runs, at most MaxInFlight of them
\* in progress at a time: CacheExpire is then the drop of an entry by
\* max_capacity alone.
MaxInFlight == 2

StartTtl(r, k) ==
    /\ Cardinality({q \in Reqs : pc[q] \notin {"idle", "done"}}) < MaxInFlight
    /\ Start(r, k)

NextTtl ==
    \/ \E r \in Reqs, k \in Keys : StartTtl(r, k)
    \/ \E r \in Reqs, res \in Results : FetchHitReturn(r, res)
    \/ \E r \in Reqs : AcquireLock(r)
    \/ \E r \in Reqs : LockGranted(r)
    \/ \E r \in Reqs : Recheck(r)
    \/ \E r \in Reqs, res \in Results : FetchRecheckReturn(r, res)
    \/ \E r \in Reqs, u \in Locations \cup {None} : ResolveReturn(r, u)
    \/ \E r \in Reqs, res \in Results : FetchNewReturn(r, res)
    \/ \E k \in Keys : CacheExpire(k)
    \/ Tick

SpecTtl == Init /\ [][NextTtl]_vars

\* The cache holds an entry for k: inserted, and since then neither
\* invalidated nor dropped by max_capacity.
Held(k) == cache[k] # None

\* C15: a lookup for a key whose entry is held finds it at any time before
\* CACHE_TTL has passed since the entry's insert, and finds nothing at any
\* time after; a request that arrives after goes the miss path, and its
\* lookup under the lock, finding nothing either, calls the Resolver.
C15_TtlBoundary ==
    [][\A r \in Reqs :
          /\ (pc[r] = "idle" /\ pc'[r] # "idle" /\ Held(key'[r]))
             => /\ now < insertedAt[key'[r]] + CACHE_TTL
                   => pc'[r] = "fetch_hit" /\ url'[r] = cache[key'[r]]
                /\ now > insertedAt[key'[r]] + CACHE_TTL
                   => pc'[r] = "lock"
          /\ (pc[r] = "recheck" /\ pc'[r] # "recheck" /\ Held(key[r]))
             => /\ now < insertedAt[key[r]] + CACHE_TTL
                   => pc'[r] = "fetch_recheck" /\ url'[r] = cache[key[r]]
                /\ now > insertedAt[key[r]] + CACHE_TTL
                   => pc'[r] = "resolve" /\ resolveCalls'[r] = 1]_vars

\* A request hit the entry before its TTL, and a later one, after the TTL,
\* missed it and resolved again.
C15_Witness ==
    \E q, r \in Reqs :
        /\ q < r
        /\ key[q] = key[r]
        /\ pc[q] = "done" /\ fetched[q] = << <<"hit", OK>> >>
        /\ pc[r] = "fetch_new" /\ fetched[r] = <<>> /\ resolveCalls[r] = 1
        /\ now = insertedAt[key[r]]
        /\ now > CACHE_TTL

\* C19: no request owns a lock while a fetch of its own is outstanding.
C19_NoLockDuringFetch ==
    \A r \in Reqs : Fetching(r) => ~Owns(r)

\* C20: the step in which a request's fetch of the URL the cache holds for
\* its key returns 404 leaves the cache without that entry.
C20_GoneInvalidates ==
    [][\A r \in Reqs :
          (/\ Fetching(r)
           /\ Len(fetched'[r]) = Len(fetched[r]) + 1
           /\ Last(fetched'[r])[2] = NOT_FOUND
           /\ cache[key[r]] = url[r])
          => cache'[key[r]] # url[r]]_vars

\* ------------------------------------------------- termination of requests
\* One poll of r's handler future: whichever await it is suspended at
\* completes. The lock() future completes once the mutex is handed over; the
\* fetch and the probe complete because the client they are sent with has a
\* total timeout (CLIENT_TIMEOUT), so each returns a response or an error.
Progress(r) ==
    \/ AcquireLock(r)
    \/ LockGranted(r)
    \/ Recheck(r)
    \/ \E res \in Results : FetchHitReturn(r, res)
    \/ \E res \in Results : FetchRecheckReturn(r, res)
    \/ \E u \in Locations \cup {None} : ResolveReturn(r, u)
    \/ \E res \in Results : FetchNewReturn(r, res)

\* The requests with clients that may disconnect, while both caches keep
\* their entries.
NextLive ==
    \/ \E r \in Reqs, k \in Keys : Start(r, k)
    \/ \E r \in Reqs, res \in Results : FetchHitReturn(r, res)
    \/ \E r \in Reqs : AcquireLock(r)
    \/ \E r \in Reqs : LockGranted(r)
    \/ \E r \in Reqs : Recheck(r)
    \/ \E r \in Reqs, res \in Results : FetchRecheckReturn(r, res)
    \/ \E r \in Reqs, u \in Locations \cup {None} : ResolveReturn(r, u)
    \/ \E r \in Reqs, res \in Results : FetchNewReturn(r, res)
    \/ \E r \in Reqs : Cancel(r)

\* The runtime polls every task that can make progress; no client is obliged
\* to send a request or to disconnect.
SpecLive ==
    Init /\ [][NextLive]_vars /\ \A r \in Reqs : WF_vars(Progress(r))

\* C21: under fair scheduling, with every fetch and every probe returning,
\* every request that was started eventually ends: its handler returns a
\* response, or its future is dropped because the client left. None waits
\* forever on a per-key lock and none keeps going round resolve and fetch.
C21_Termination ==
    \A r \in Reqs : (pc[r] # "idle") ~> Ended(r)

\* All requests came for one key while another was in progress, one of them
\* resolved, the others went through the lock to the re-check, and all ended.
C21_Witness ==
    /\ \A r \in Reqs : pc[r] = "done" /\ key[r] = 1
    /\ overlap[1]
    /\ \E r \in Reqs :
          /\ resolveCalls[r] = 1
          /\ \A q \in Reqs \ {r} :
                /\ resolveCalls[q] = 0
                /\ fetched[q] = <<<<"recheck", OK>>>>

\* C22: the step in which a request's fetch of the URL it read from the
\* cache returns 404, taken while the cache maps the request's key to another
\* URL (one a resolution inserted after the request's read), leaves that
\* newer entry in the cache.
C22_InvalidateOnlyStale ==
    [][\A r \in Reqs :
          (/\ pc[r] \in {"fetch_hit", "fetch_recheck"}
           /\ Len(fetched'[r]) = Len(fetched[r]) + 1
           /\ Last(fetched'[r])[2] = NOT_FOUND
           /\ cache[key[r]] # None
           /\ cache[key[r]] # url[r])
          => cache'[key[r]] = cache[key[r]]]_vars

====
